---- MODULE Spec2Model ----
(***************************************************************************)
(* Model of scripts/robustness.js: the RobustnessTestManager of the        *)
(* WebFAST DOM robustness page.  The manager's fields, the parts of the    *)
(* document its handlers read and write, the pending setTimeout callbacks  *)
(* and the file a step offers for download are the state; every handler is *)
(* one action.  Strings that the claims take apart (the CSS path, the list *)
(* item text) are sequences of tokens; the others are TLA+ strings.        *)
(***************************************************************************)
EXTENDS Integers, Sequences, FiniteSets, TLC

VARIABLES
    now,              \* Date.now(), in milliseconds since page load
    doc,              \* the optional elements the document holds
    tree,             \* the chain of elements below document.body that holds the
                      \* nested probe spans: tree[e] is [tagName, id, classList]
    dynamicIdCounter, \* this.dynamicIdCounter
    testResults,      \* this.testResults: <<[key, events]>> in key insertion order
    startTime,        \* this.startTime
    dynamicButton,    \* [id, innerHTML, backgroundColor] of the dynamic-id button
    ariaText,         \* textContent of the [role="button"] element
    ripples,          \* number of ripple spans appended to each nested span
    position,         \* style.position of each nested span
    itemBackground,   \* style.backgroundColor of each list item
    stressContainer,  \* children of #stress-test-container
    metricsHTML,      \* innerHTML of #test-metrics: <<>> or <<total, types, seconds>>
    timers,           \* pending setTimeout callbacks, in creation order
    download,         \* the file the last step offered for download: <<>> or <<[filename, content]>>
    lastOp,           \* history: the last step taken, [op, arg]
    clicksSinceLoad   \* history: dynamic-id clicks since page load; -1 once Reset ran

vars == <<now, doc, tree, dynamicIdCounter, testResults, startTime, dynamicButton,
          ariaText, ripples, position, itemBackground, stressContainer,
          metricsHTML, timers, download, lastOp, clicksSinceLoad>>

----------------------------------------------------------------------------
(* Bounds of the model *)

\* the clock advances in steps of TickMs milliseconds
TickMs == 1000
\* the clock stops after MaxTicks steps
MaxTicks == 2
\* at most MaxEvents records are held in the log at a time
MaxEvents == 2
\* at most MaxTimers callbacks are pending at a time
MaxTimers == 2
\* the chains of elements below document.body hold up to MaxDepth elements
MaxDepth == 3

----------------------------------------------------------------------------
(* Program constants.  The labels are written without their pictographs. *)

DynamicHighlightMs == 500
AriaRevertMs == 2000
RippleMs == 600
ListHighlightMs == 1000
NumSections == 5
NumSubsections == 3
ElementsCreated == 15
InitialCounter == 1
ResetCounter == 1

OriginalDynamicId == "dynamic-id-btn"
OriginalDynamicLabel == "Dynamic ID Button"
DynamicHighlight == "#27ae60"
AriaOriginalText == "ARIA Role Button"
AriaClickedText == "ARIA Button Clicked!"
ListHighlight == "#fff3cd"

----------------------------------------------------------------------------
(* The document.  Its HTML is not part of the script; the handlers are      *)
(* bound to these elements when they are present.                          *)

OptionalElements == {"dynamic-id-btn", "aria-button", "test-metrics", "stress-test-container"}

\* the documents the script is loaded into: the full page, the page without
\* the metrics panel and the page without the stress-test container
Documents == {OptionalElements, OptionalElements \ {"test-metrics"},
              OptionalElements \ {"stress-test-container"}}

AriaRole == "button"
AriaTagName == "DIV"

\* Elements of the chain are numbered by depth: element 1 is the child of
\* document.body and element e + 1 the child of element e.
Body == 0
Html == -1
Null == -2

\* the kinds of element the chain is built from
Wrapper == [tagName |-> "DIV", id |-> "", classList |-> <<"deeply-nested">>]
PlainDiv == [tagName |-> "DIV", id |-> "", classList |-> <<>>]
OuterSpan == [tagName |-> "SPAN", id |-> "outer-span", classList |-> <<>>]
InnerSpan == [tagName |-> "SPAN", id |-> "", classList |-> <<"inner", "highlight">>]
PlainSpan == [tagName |-> "SPAN", id |-> "", classList |-> <<>>]
ProbeSpan == [tagName |-> "SPAN", id |-> "probe", classList |-> <<"probe-class">>]

\* the chains of up to MaxDepth elements
NodeKinds == {Wrapper, PlainDiv, OuterSpan, InnerSpan, PlainSpan, ProbeSpan}
Trees == UNION {[1..n -> NodeKinds] : n \in 1..MaxDepth}

\* the chain of the page:
\* body > div.deeply-nested > div > span#outer-span > span.inner.highlight
PageTree == <<Wrapper, PlainDiv, OuterSpan, InnerSpan>>

parentElement(e) ==
    IF e = Html THEN Null
    ELSE IF e = Body THEN Html
    ELSE e - 1

tagName(e) ==
    IF e = Html THEN "HTML"
    ELSE IF e = Body THEN "BODY"
    ELSE tree[e].tagName

elementId(e) == IF e \in {Body, Html} THEN "" ELSE tree[e].id

classList(e) == IF e \in {Body, Html} THEN <<>> ELSE tree[e].classList

\* e is a span below an element of class deeply-nested
matchesNestedSelector(e) ==
    /\ tree[e].tagName = "SPAN"
    /\ \E a \in 1..(e - 1) :
          \E c \in 1..Len(tree[a].classList) : tree[a].classList[c] = "deeply-nested"

\* document.querySelectorAll('.deeply-nested span'), in document order
nestedElements == SelectSeq([e \in 1..Len(tree) |-> e], matchesNestedSelector)

\* the text of the items of #unstable-list, as tokens
listItemText == << <<" ", "First", " ", "item", " ">>, <<"Second">> >>
NumListItems == Len(listItemText)

----------------------------------------------------------------------------
(* Pure helpers *)

\* item.textContent.trim(): strips the blank tokens at both ends
RECURSIVE trimLeft(_)
trimLeft(s) == IF s # <<>> /\ Head(s) = " " THEN trimLeft(Tail(s)) ELSE s

RECURSIVE trimRight(_)
trimRight(s) ==
    IF s # <<>> /\ s[Len(s)] = " " THEN trimRight(SubSeq(s, 1, Len(s) - 1)) ELSE s

trim(s) == trimRight(trimLeft(s))

\* Array.prototype.join
RECURSIVE join(_, _)
join(parts, sep) ==
    IF parts = <<>> THEN <<>>
    ELSE IF Len(parts) = 1 THEN <<parts[1]>>
    ELSE <<parts[1], sep>> \o join(Tail(parts), sep)

RECURSIVE joinString(_, _)
joinString(parts, sep) ==
    IF parts = <<>> THEN ""
    ELSE IF Len(parts) = 1 THEN parts[1]
    ELSE parts[1] \o sep \o joinString(Tail(parts), sep)

\* the while loop of calculateNestingLevel, from `parent`
RECURSIVE nestingLoop(_, _)
nestingLoop(parent, level) ==
    IF parent # Null /\ parent # Body
    THEN nestingLoop(parentElement(parent), level + 1)
    ELSE level

calculateNestingLevel(element) == nestingLoop(parentElement(element), 0)

\* String.prototype.toLowerCase on a tag name
toLowerCase(tag) ==
    CASE tag = "SPAN" -> "span"
      [] tag = "DIV"  -> "div"
      [] tag = "BODY" -> "body"
      [] tag = "HTML" -> "html"

\* one segment of the CSS path: tag name plus #id or .classes
selectorOf(current) ==
    LET tag == toLowerCase(tagName(current))
    IN  IF elementId(current) # "" THEN tag \o "#" \o elementId(current)
        ELSE IF classList(current) # <<>>
             THEN tag \o "." \o joinString(classList(current), ".")
             ELSE tag

\* mutant of cssPathLoop: the loop stops at the root, not at document.body
RECURSIVE cssPathLoopThroughBody(_, _)
cssPathLoopThroughBody(current, path) ==
    IF current # Null
    THEN cssPathLoopThroughBody(parentElement(current), <<selectorOf(current)>> \o path)
    ELSE path

\* the while loop of generateCssPath, from `current`, with path.unshift
RECURSIVE cssPathLoop(_, _)
cssPathLoop(current, path) ==
    IF current # Null /\ current # Body
    THEN cssPathLoop(parentElement(current), <<selectorOf(current)>> \o path)
    ELSE path

generateCssPath(element) == join(cssPathLoop(element, <<>>), " > ")

\* Object.keys(this.testResults)
keysOf(tr) == [i \in 1..Len(tr) |-> tr[i].key]

hasKey(tr, k) == \E i \in 1..Len(tr) : tr[i].key = k

\* Object.values(tr).reduce((sum, events) => sum + events.length, 0)
RECURSIVE reduceLengths(_, _)
reduceLengths(tr, sum) ==
    IF tr = <<>> THEN sum ELSE reduceLengths(Tail(tr), sum + Len(Head(tr).events))

\* Math.round(ms / 1000) of a non-negative duration
roundSeconds(ms) == (ms + 500) \div 1000

----------------------------------------------------------------------------
(* The event recorder and the metrics renderer *)

\* mutant of metricsTotalEvents: counts the event types, not the events
metricsTotalEventsCountsKeys(tr) == Len(tr)

\* the total of line 227
metricsTotalEvents(tr) == reduceLengths(tr, 0)

\* updateMetricsDisplay: the new innerHTML of #test-metrics
updateMetricsDisplay(html, tr, start, t) ==
    IF "test-metrics" \notin doc THEN html
    ELSE <<metricsTotalEvents(tr), Len(keysOf(tr)), roundSeconds(t - start)>>

\* mutant of emptyResults: the log starts with a key for a known event type
emptyResultsWithKey == <<[key |-> "dynamic-id-change", events |-> <<>>]>>

\* this.testResults = {}
emptyResults == <<>>

\* mutant of pushEvent: unshift instead of push
pushEventUnshift(tr, eventType, data) ==
    LET withKey == IF ~hasKey(tr, eventType)
                   THEN Append(tr, [key |-> eventType, events |-> <<>>])
                   ELSE tr
    IN  [i \in 1..Len(withKey) |->
            IF withKey[i].key = eventType
            THEN [withKey[i] EXCEPT !.events = <<data>> \o @]
            ELSE withKey[i]]

\* the log after logEvent's key creation and push
pushEvent(tr, eventType, data) ==
    LET withKey == IF ~hasKey(tr, eventType)
                   THEN Append(tr, [key |-> eventType, events |-> <<>>])
                   ELSE tr
    IN  [i \in 1..Len(withKey) |->
            IF withKey[i].key = eventType
            THEN [withKey[i] EXCEPT !.events = Append(@, data)]
            ELSE withKey[i]]

\* mutant of logEvent: the renderer runs first and its early return ends
\* the call
logEventNeedsTarget(eventType, data) ==
    IF "test-metrics" \notin doc
    THEN UNCHANGED <<testResults, metricsHTML>>
    ELSE /\ testResults' = pushEvent(testResults, eventType, data)
         /\ metricsHTML' = updateMetricsDisplay(metricsHTML, testResults', startTime, now)

\* logEvent(eventType, data)
logEvent(eventType, data) ==
    /\ testResults' = pushEvent(testResults, eventType, data)
    /\ metricsHTML' = updateMetricsDisplay(metricsHTML, testResults', startTime, now)

\* setTimeout(callback, delay).  `solo` is history: no callback of the same
\* kind on the same element was pending when this one was scheduled
scheduledDebounced(pending, callback, target, delay) ==
    Append(SelectSeq(pending, LAMBDA t : t.callback # callback \/ t.target # target),
        [callback |-> callback, target |-> target, due |-> now + delay, solo |-> TRUE])

\* the pending callbacks after setTimeout(callback, delay); no handler ever
\* calls clearTimeout
scheduled(pending, callback, target, delay) ==
    Append(pending,
        [callback |-> callback, target |-> target, due |-> now + delay,
         solo |-> ~\E i \in 1..Len(pending) :
                     pending[i].callback = callback /\ pending[i].target = target])

setTimeout(callback, target, delay) ==
    timers' = scheduled(timers, callback, target, delay)

\* the model holds at most MaxEvents records and MaxTimers pending callbacks
\* and the user interacts during the first MaxTicks steps of the clock
Interacting == now <= MaxTicks * TickMs
RoomForEvent == Interacting /\ reduceLengths(testResults, 0) < MaxEvents
RoomForTimer == Len(timers) < MaxTimers

----------------------------------------------------------------------------
(* Initial state: the state after the constructor and DOMContentLoaded *)

\* the script is loaded into one of `documents` holding one of `trees`
Loaded(documents, trees) ==
    /\ now = 0
    /\ doc \in documents
    /\ tree \in trees
    /\ dynamicIdCounter = InitialCounter
    /\ testResults = emptyResults
    /\ startTime = 0
    /\ dynamicButton = [id |-> OriginalDynamicId, innerHTML |-> OriginalDynamicLabel,
                        backgroundColor |-> ""]
    /\ ariaText = AriaOriginalText
    /\ ripples = [i \in 1..Len(nestedElements) |-> 0]
    /\ position = [i \in 1..Len(nestedElements) |-> ""]
    /\ itemBackground = [i \in 1..NumListItems |-> ""]
    /\ stressContainer = <<>>
    /\ metricsHTML = updateMetricsDisplay(<<>>, testResults, 0, 0)
    /\ timers = <<>>
    /\ download = <<>>
    /\ lastOp = [op |-> "init", arg |-> <<>>]
    /\ clicksSinceLoad = 0

Init == Loaded(Documents, {PageTree})

----------------------------------------------------------------------------
(* Handlers *)

\* mutant of newDynamicId: the counter is incremented before it is read
newDynamicIdPreIncrement(counter) == "dynamic-btn-" \o ToString(counter + 1)

\* the id synthesized at line 25, from the counter before its increment
newDynamicId(counter) == "dynamic-btn-" \o ToString(counter)

\* click on the dynamic-id button
dynamicButtonClick ==
    /\ "dynamic-id-btn" \in doc
    /\ RoomForEvent /\ RoomForTimer
    /\ LET oldId == dynamicButton.id
           newId == newDynamicId(dynamicIdCounter)
       IN  /\ dynamicIdCounter' = dynamicIdCounter + 1
           /\ dynamicButton' = [id |-> newId,
                                innerHTML |-> "Dynamic ID Button (ID: " \o newId \o ")",
                                backgroundColor |-> DynamicHighlight]
           /\ logEvent("dynamic-id-change",
                       [oldId |-> oldId, newId |-> newId, timestamp |-> now])
    /\ setTimeout("clearDynamicHighlight", 0, DynamicHighlightMs)
    /\ download' = <<>>
    /\ lastOp' = [op |-> "dynamicButtonClick", arg |-> <<>>]
    /\ clicksSinceLoad' = IF clicksSinceLoad >= 0 THEN clicksSinceLoad + 1 ELSE clicksSinceLoad
    /\ UNCHANGED <<now, doc, tree, startTime, ariaText, ripples, position, itemBackground,
                   stressContainer>>

\* mutant of ariaClickListener: the revert is scheduled with the delay of
\* the dynamic button's highlight
ariaClickListenerShortRevert ==
    /\ logEvent("aria-button-click",
                [role |-> AriaRole, tagName |-> AriaTagName, timestamp |-> now])
    /\ ariaText' = AriaClickedText
    /\ setTimeout("revertAriaText", 0, DynamicHighlightMs)

\* the click listener of the ARIA button
ariaClickListener ==
    /\ logEvent("aria-button-click",
                [role |-> AriaRole, tagName |-> AriaTagName, timestamp |-> now])
    /\ ariaText' = AriaClickedText
    /\ setTimeout("revertAriaText", 0, AriaRevertMs)

\* pointer click on the ARIA button
ariaButtonClick ==
    /\ "aria-button" \in doc
    /\ RoomForEvent /\ RoomForTimer
    /\ ariaClickListener
    /\ download' = <<>>
    /\ lastOp' = [op |-> "ariaButtonClick", arg |-> <<>>]
    /\ UNCHANGED <<now, doc, tree, dynamicIdCounter, startTime, dynamicButton, ripples, position,
                   itemBackground, stressContainer, clicksSinceLoad>>

\* the keys pressed on the ARIA button
Keys == {"Enter", " ", "Tab"}

\* mutant of activates: Space is not handled
activatesEnterOnly(key) == key = "Enter"

\* the keydown listener's test of e.key
activates(key) == key = "Enter" \/ key = " "

\* keydown on the ARIA button; e.preventDefault() acts on the event alone,
\* and ariaButton.click() runs the click listener before the handler returns
ariaButtonKeydown(key) ==
    /\ "aria-button" \in doc
    /\ Interacting
    /\ IF activates(key)
       THEN /\ RoomForEvent /\ RoomForTimer
            /\ ariaClickListener
       ELSE UNCHANGED <<testResults, metricsHTML, ariaText, timers>>
    /\ download' = <<>>
    /\ lastOp' = [op |-> "ariaButtonKeydown", arg |-> <<key>>]
    /\ UNCHANGED <<now, doc, tree, dynamicIdCounter, startTime, dynamicButton, ripples, position,
                   itemBackground, stressContainer, clicksSinceLoad>>

\* the elements a click on e reaches while it bubbles: e, then its ancestors
RECURSIVE bubblePath(_)
bubblePath(e) == IF e = Null THEN <<>> ELSE <<e>> \o bubblePath(parentElement(e))

\* the position of element e in nestedElements, 0 when it holds no listener
nestedIndexOf(e) ==
    IF \E i \in 1..Len(nestedElements) : nestedElements[i] = e
    THEN CHOOSE i \in 1..Len(nestedElements) : nestedElements[i] = e
    ELSE 0

\* the nested listener calls e.stopPropagation()
stopsPropagationNever == FALSE
stopsPropagation == TRUE

\* the nested listeners a click runs while it bubbles along path, as indices
\* into nestedElements
RECURSIVE listenersRun(_)
listenersRun(path) ==
    IF path = <<>> THEN <<>>
    ELSE IF nestedIndexOf(Head(path)) = 0 THEN listenersRun(Tail(path))
    ELSE <<nestedIndexOf(Head(path))>>
         \o (IF stopsPropagation THEN <<>> ELSE listenersRun(Tail(path)))

\* the record the listener of the index-th nested span logs
nestedClickData(index) ==
    [elementIndex |-> index - 1,
     nestingLevel |-> calculateNestingLevel(nestedElements[index]),
     cssPath |-> generateCssPath(nestedElements[index]),
     timestamp |-> now]

\* the log after the listeners `fired` have each pushed their record
RECURSIVE nestedRecords(_, _)
nestedRecords(tr, fired) ==
    IF fired = <<>> THEN tr
    ELSE nestedRecords(pushEvent(tr, "nested-element-click", nestedClickData(Head(fired))),
                       Tail(fired))

\* the pending callbacks after a ripple removal was scheduled for each of `fired`
RECURSIVE rippleTimers(_, _)
rippleTimers(pending, fired) ==
    IF fired = <<>> THEN pending
    ELSE rippleTimers(scheduled(pending, "removeRipple", Head(fired), RippleMs), Tail(fired))

\* createRippleEffect(element) for each element whose listener ran
createRippleEffect(fired) ==
    LET ran == {fired[k] : k \in 1..Len(fired)}
    IN /\ position' = [i \in DOMAIN position |->
                          IF i \in ran THEN "relative" ELSE position[i]]
       /\ ripples' = [i \in DOMAIN ripples |->
                         IF i \in ran THEN ripples[i] + 1 ELSE ripples[i]]
       /\ timers' = rippleTimers(timers, fired)

\* click on the index-th nested span (index counted from 1 here, from 0 in
\* the code): every listener the click reaches logs and ripples; the renders
\* of the metrics all happen at the same instant and the last one stands
nestedElementClick(index) ==
    /\ index \in 1..Len(nestedElements)
    /\ RoomForEvent /\ RoomForTimer
    /\ LET fired == listenersRun(bubblePath(nestedElements[index]))
       IN /\ testResults' = nestedRecords(testResults, fired)
          /\ metricsHTML' = updateMetricsDisplay(metricsHTML, testResults', startTime, now)
          /\ createRippleEffect(fired)
    /\ download' = <<>>
    /\ lastOp' = [op |-> "nestedElementClick", arg |-> <<index>>]
    /\ UNCHANGED <<now, doc, tree, dynamicIdCounter, startTime, dynamicButton, ariaText,
                   itemBackground, stressContainer, clicksSinceLoad>>

\* click on the index-th item of #unstable-list
listItemClick(index) ==
    /\ RoomForEvent /\ RoomForTimer
    /\ logEvent("unstable-list-click",
                [itemIndex |-> index - 1,
                 itemText |-> trim(listItemText[index]),
                 timestamp |-> now])
    /\ itemBackground' = [itemBackground EXCEPT ![index] = ListHighlight]
    /\ setTimeout("clearListHighlight", index, ListHighlightMs)
    /\ download' = <<>>
    /\ lastOp' = [op |-> "listItemClick", arg |-> <<index>>]
    /\ UNCHANGED <<now, doc, tree, dynamicIdCounter, startTime, dynamicButton, ariaText, ripples,
                   position, stressContainer, clicksSinceLoad>>

\* mutant of stressButton: i and j are declared with var, so every listener
\* reads the one binding of each, which holds the loop's final value
stressButtonSharedBinding(i, j) ==
    [className |-> "stress-test-btn",
     textContent |-> "Dynamic Button " \o ToString(i) \o "-" \o ToString(j),
     sectionIndex |-> NumSections, subsectionIndex |-> NumSubsections]

\* the button the inner loop builds for section i, subsection j; its
\* listener closes over the i and j of its own iteration (let)
stressButton(i, j) ==
    [className |-> "stress-test-btn",
     textContent |-> "Dynamic Button " \o ToString(i) \o "-" \o ToString(j),
     sectionIndex |-> i, subsectionIndex |-> j]

\* the section the outer loop builds for i
stressSection(i) ==
    [className |-> "stress-section-" \o ToString(i),
     children |-> [jj \in 1..NumSubsections |->
                     [className |-> "stress-subsection-" \o ToString(jj - 1),
                      children |-> <<stressButton(i, jj - 1)>>]]]

\* the children of the container after the loops, starting from `content`
buildStressTree(content) == content \o [ii \in 1..NumSections |-> stressSection(ii - 1)]

\* mutant of containerMissing: no early return
containerMissingIgnored == FALSE

\* the test of line 163: getElementById found no container
containerMissing == "stress-test-container" \notin doc

\* mutant of clearContainer: the old content is kept
clearContainerKeeps(content) == content

\* container.innerHTML = ''
clearContainer(content) == <<>>

\* performStressTest()
performStressTest ==
    /\ Interacting
    /\ IF containerMissing
       THEN UNCHANGED <<stressContainer, testResults, metricsHTML>>
       ELSE /\ RoomForEvent
            /\ stressContainer' = buildStressTree(clearContainer(stressContainer))
            /\ logEvent("stress-test-performed",
                        [timestamp |-> now, elementsCreated |-> ElementsCreated])
    /\ download' = <<>>
    /\ lastOp' = [op |-> "performStressTest", arg |-> <<>>]
    /\ UNCHANGED <<now, doc, tree, dynamicIdCounter, startTime, dynamicButton, ariaText, ripples,
                   position, itemBackground, timers, clicksSinceLoad>>

\* click on the button of subsection b of section s of the container
stressButtonClick(s, b) ==
    /\ s \in 1..Len(stressContainer)
    /\ b \in 1..Len(stressContainer[s].children)
    /\ RoomForEvent
    /\ LET button == stressContainer[s].children[b].children[1]
       IN  logEvent("stress-test-click",
                    [sectionIndex |-> button.sectionIndex,
                     subsectionIndex |-> button.subsectionIndex,
                     timestamp |-> now])
    /\ download' = <<>>
    /\ lastOp' = [op |-> "stressButtonClick", arg |-> <<s, b>>]
    /\ UNCHANGED <<now, doc, tree, dynamicIdCounter, startTime, dynamicButton, ariaText, ripples,
                   position, itemBackground, stressContainer, timers,
                   clicksSinceLoad>>

\* mutant of exportTotalEvents: counts the event types, not the events
exportTotalEventsCountsKeys(tr) == Len(tr)

\* the total of line 253
exportTotalEvents(tr) == reduceLengths(tr, 0)

\* the object exportTestResults serializes
exportResults ==
    [testResults |-> testResults,
     testDuration |-> now - startTime,
     timestamp |-> <<"ISO", now>>,
     totalEvents |-> exportTotalEvents(testResults)]

\* mutant of exportTestResults: the export re-renders the metrics panel
exportTestResultsRerenders ==
    /\ Interacting
    /\ download' = <<[filename |-> "webfast-robustness-test-" \o ToString(now) \o ".json",
                      content |-> exportResults]>>
    /\ metricsHTML' = updateMetricsDisplay(metricsHTML, testResults, startTime, now)
    /\ lastOp' = [op |-> "exportTestResults", arg |-> <<>>]
    /\ UNCHANGED <<now, doc, tree, dynamicIdCounter, testResults, startTime, dynamicButton,
                   ariaText, ripples, position, itemBackground, stressContainer,
                   timers, clicksSinceLoad>>

\* exportTestResults(): the anchor is appended, clicked and removed again
exportTestResults ==
    /\ Interacting
    /\ download' = <<[filename |-> "webfast-robustness-test-" \o ToString(now) \o ".json",
                      content |-> exportResults]>>
    /\ lastOp' = [op |-> "exportTestResults", arg |-> <<>>]
    /\ UNCHANGED <<now, doc, tree, dynamicIdCounter, testResults, startTime, dynamicButton,
                   ariaText, ripples, position, itemBackground, stressContainer,
                   metricsHTML, timers, clicksSinceLoad>>

\* the ids the dynamic button can carry within the bounds
idStartsWithDynamicBtn(id) ==
    \E k \in 0..(MaxEvents + 2) : id = "dynamic-btn-" \o ToString(k)

\* mutant of findDynamicButton: the lookup by the original id alone
findDynamicButtonByOriginalId ==
    /\ "dynamic-id-btn" \in doc
    /\ dynamicButton.id = "dynamic-id-btn"

\* getElementById('dynamic-id-btn') || querySelector('[id^="dynamic-btn-"]'):
\* whether the lookup finds the dynamic button
findDynamicButton ==
    /\ "dynamic-id-btn" \in doc
    /\ \/ dynamicButton.id = "dynamic-id-btn"
       \/ idStartsWithDynamicBtn(dynamicButton.id)

\* mutant of resetTests: the counter is not set back
resetTestsKeepsCounter ==
    /\ Interacting
    /\ testResults' = emptyResults
    /\ startTime' = now
    /\ metricsHTML' = updateMetricsDisplay(metricsHTML, testResults', startTime', now)
    /\ dynamicButton' = IF findDynamicButton
                        THEN [dynamicButton EXCEPT !.id = OriginalDynamicId,
                                                   !.innerHTML = OriginalDynamicLabel]
                        ELSE dynamicButton
    /\ download' = <<>>
    /\ lastOp' = [op |-> "resetTests", arg |-> <<>>]
    /\ clicksSinceLoad' = -1
    /\ UNCHANGED <<now, doc, tree, dynamicIdCounter, ariaText, ripples, position,
                   itemBackground, stressContainer, timers>>

\* resetTests()
resetTests ==
    /\ Interacting
    /\ testResults' = emptyResults
    /\ dynamicIdCounter' = ResetCounter
    /\ startTime' = now
    /\ metricsHTML' = updateMetricsDisplay(metricsHTML, testResults', startTime', now)
    /\ dynamicButton' = IF findDynamicButton
                        THEN [dynamicButton EXCEPT !.id = OriginalDynamicId,
                                                   !.innerHTML = OriginalDynamicLabel]
                        ELSE dynamicButton
    /\ download' = <<>>
    /\ lastOp' = [op |-> "resetTests", arg |-> <<>>]
    /\ clicksSinceLoad' = -1
    /\ UNCHANGED <<now, doc, tree, ariaText, ripples, position, itemBackground, stressContainer,
                   timers>>

----------------------------------------------------------------------------
(* Time and the timer callbacks *)

\* the host runs the due callback with the earliest expiry, the oldest first
nextTimer(i) ==
    /\ i \in 1..Len(timers)
    /\ timers[i].due <= now
    /\ \A j \in 1..Len(timers) :
          \/ timers[j].due > timers[i].due
          \/ (timers[j].due = timers[i].due /\ j >= i)

removeAt(seq, i) == SubSeq(seq, 1, i - 1) \o SubSeq(seq, i + 1, Len(seq))

\* a setTimeout callback runs
timerFires ==
    \E i \in 1..Len(timers) :
        /\ nextTimer(i)
        /\ timers' = removeAt(timers, i)
        /\ LET t == timers[i] IN
           /\ dynamicButton' = IF t.callback = "clearDynamicHighlight"
                               THEN [dynamicButton EXCEPT !.backgroundColor = ""]
                               ELSE dynamicButton
           /\ ariaText' = IF t.callback = "revertAriaText" THEN AriaOriginalText ELSE ariaText
           /\ ripples' = IF t.callback = "removeRipple" /\ ripples[t.target] > 0
                         THEN [ripples EXCEPT ![t.target] = @ - 1]
                         ELSE ripples
           /\ itemBackground' = IF t.callback = "clearListHighlight"
                                THEN [itemBackground EXCEPT ![t.target] = ""]
                                ELSE itemBackground
           /\ lastOp' = [op |-> "timerFires", arg |-> <<t.callback>>]
        /\ download' = <<>>
        /\ UNCHANGED <<now, doc, tree, dynamicIdCounter, testResults, startTime, position,
                       stressContainer, metricsHTML, clicksSinceLoad>>

\* time passes; a callback that is due runs before the clock moves on, and
\* the clock runs on until the last callback has run
tick ==
    /\ now < MaxTicks * TickMs \/ timers # <<>>
    /\ \A i \in 1..Len(timers) : timers[i].due > now
    /\ now' = now + TickMs
    /\ download' = <<>>
    /\ lastOp' = [op |-> "tick", arg |-> <<>>]
    /\ UNCHANGED <<doc, tree, dynamicIdCounter, testResults, startTime, dynamicButton, ariaText,
                   ripples, position, itemBackground, stressContainer, metricsHTML,
                   timers, clicksSinceLoad>>

----------------------------------------------------------------------------
(* Specifications *)

\* the generated buttons that get clicked: the first and the last one
ClickedButtons == {<<1, 1>>, <<NumSections, NumSubsections>>}

Next ==
    \/ dynamicButtonClick
    \/ ariaButtonClick
    \/ \E key \in Keys : ariaButtonKeydown(key)
    \/ \E index \in 1..Len(nestedElements) : nestedElementClick(index)
    \/ \E index \in 1..NumListItems : listItemClick(index)
    \/ performStressTest
    \/ \E c \in ClickedButtons : stressButtonClick(c[1], c[2])
    \/ exportTestResults
    \/ resetTests
    \/ timerFires
    \/ tick

Spec == Init /\ [][Next]_vars

\* the nested probe spans of every chain of up to MaxDepth elements, clicked
\* and reset at load time
InitTrees == Loaded({OptionalElements}, Trees)

NextTrees ==
    \/ \E index \in 1..MaxDepth : nestedElementClick(index)
    \/ resetTests

SpecTrees == InitTrees /\ [][NextTrees]_vars

\* the stress test, with every generated button clicked
NextStress ==
    \/ performStressTest
    \/ \E s \in 1..NumSections, b \in 1..NumSubsections : stressButtonClick(s, b)
    \/ resetTests

SpecStress == Loaded({OptionalElements}, {PageTree}) /\ [][NextStress]_vars

\* the host's event loop runs every callback that is due, and time passes
FairSpec == Spec /\ WF_vars(timerFires) /\ WF_vars(tick)

----------------------------------------------------------------------------
(* Definitions the properties are stated with *)

\* the positions <<type, place>> of all records held in the log
LoggedRecords ==
    UNION {{<<i, j>> : j \in 1..Len(testResults[i].events)} : i \in 1..Len(testResults)}

\* the sequence recorded under eventType in tr, empty when the key is absent
EventsOfType(tr, eventType) ==
    IF \E i \in 1..Len(tr) : tr[i].key = eventType
    THEN tr[CHOOSE i \in 1..Len(tr) : tr[i].key = eventType].events
    ELSE <<>>

\* the buttons below the stress-test container, by section, subsection, place
LeafButtons ==
    UNION {UNION {{<<s, b, c>> : c \in 1..Len(stressContainer[s].children[b].children)} :
                    b \in 1..Len(stressContainer[s].children)} :
             s \in 1..Len(stressContainer)}

\* the handlers that record one event whenever they run, and its type
LoggingOps == {"dynamicButtonClick", "ariaButtonClick", "nestedElementClick",
               "listItemClick", "stressButtonClick"}

RecordedType(op) ==
    CASE op = "dynamicButtonClick" -> "dynamic-id-change"
      [] op = "ariaButtonClick"    -> "aria-button-click"
      [] op = "nestedElementClick" -> "nested-element-click"
      [] op = "listItemClick"      -> "unstable-list-click"
      [] op = "stressButtonClick"  -> "stress-test-click"

\* this step appended exactly one record, under eventType, after the records
\* that type already had, and left the records of every other type alone
AppendedOneOfType(eventType) ==
    LET before == EventsOfType(testResults, eventType)
        after == EventsOfType(testResults', eventType)
    IN  /\ Len(after) = Len(before) + 1
        /\ SubSeq(after, 1, Len(before)) = before
        /\ after[Len(after)].timestamp = now
        /\ \A j \in 1..Len(testResults) :
              testResults[j].key # eventType => testResults'[j] = testResults[j]
        /\ \A j \in 1..Len(testResults) : testResults'[j].key = testResults[j].key
        /\ Len(testResults') =
              IF \E j \in 1..Len(testResults) : testResults[j].key = eventType
              THEN Len(testResults) ELSE Len(testResults) + 1
        /\ testResults'[Len(testResults')].key = eventType
              \/ \E j \in 1..Len(testResults) : testResults[j].key = eventType

\* the revert callbacks of the ARIA button that are pending
PendingReverts == {i \in 1..Len(timers) : timers[i].callback = "revertAriaText"}

----------------------------------------------------------------------------
(* Properties *)

\* C1: with the metrics container present, the total event count shown in
\* the metrics panel equals the number of records held in the log, in every
\* reachable state.
C1_DisplayedTotalIsLogSize ==
    "test-metrics" \in doc =>
        /\ Len(metricsHTML) = 3
        /\ metricsHTML[1] = Cardinality(LoggedRecords)

\* C1 witness: two records of one type are held and the panel shows 2.
C1_Witness ==
    /\ "test-metrics" \in doc
    /\ Len(testResults) = 1
    /\ Len(testResults[1].events) = 2
    /\ metricsHTML[1] = 2

\* C2: after N dynamic-id clicks since page load with no Reset, the counter
\* is N+1 and the button's id is dynamic-btn-N (the original id for N = 0).
C2_CounterAndIdAfterNClicks ==
    clicksSinceLoad >= 0 =>
        /\ dynamicIdCounter = clicksSinceLoad + 1
        /\ dynamicButton.id = IF clicksSinceLoad = 0 THEN "dynamic-id-btn"
                              ELSE "dynamic-btn-" \o ToString(clicksSinceLoad)

\* C2 witness: two clicks without a Reset.
C2_Witness == clicksSinceLoad = 2 /\ dynamicButton.id = "dynamic-btn-2"

\* C3: the state a Reset leaves has counter 1, an empty log and the dynamic
\* button's original id, and a Reset that follows a Reset changes none of
\* these.
C3_ResetRestores ==
    /\ [](lastOp.op = "resetTests" =>
            /\ dynamicIdCounter = 1
            /\ testResults = <<>>
            /\ ("dynamic-id-btn" \in doc => dynamicButton.id = "dynamic-id-btn"))
    /\ [][(lastOp.op = "resetTests" /\ lastOp'.op = "resetTests") =>
            UNCHANGED <<dynamicIdCounter, testResults, dynamicButton>>]_vars

\* C3 witness: a Reset ran while the highlight of an earlier dynamic-id
\* click was still on.
C3_Witness ==
    /\ lastOp.op = "resetTests"
    /\ dynamicButton.backgroundColor = DynamicHighlight
    /\ dynamicButton.id = "dynamic-id-btn"

\* C4: the stress-test container, once filled, holds exactly 15 leaf
\* buttons, also after repeated runs, and each run appends exactly one
\* stress-test-performed record, with elementsCreated 15.
C4_StressTestBuilds15 ==
    /\ [](stressContainer # <<>> => Cardinality(LeafButtons) = 15)
    /\ [][(lastOp'.op = "performStressTest" /\ "stress-test-container" \in doc) =>
            LET before == EventsOfType(testResults, "stress-test-performed")
                after == EventsOfType(testResults', "stress-test-performed")
            IN  /\ Cardinality(LeafButtons') = 15
                /\ Len(after) = Len(before) + 1
                /\ SubSeq(after, 1, Len(before)) = before
                /\ after[Len(after)].elementsCreated = 15
                /\ Cardinality(LoggedRecords') = Cardinality(LoggedRecords) + 1]_vars

\* C4 witness: the stress test ran twice in a row.
C4_Witness ==
    /\ lastOp.op = "performStressTest"
    /\ Len(EventsOfType(testResults, "stress-test-performed")) = 2
    /\ Cardinality(LeafButtons) = 15

\* C5: a keydown of Enter or Space on the ARIA button appends exactly one
\* aria-button-click record with role "button" and tag name "DIV" and shows
\* the confirmation text, exactly as a pointer click does; a keydown of
\* another key appends nothing and leaves the text alone.
C5_KeyboardActivation ==
    [][/\ lastOp'.op = "ariaButtonClick" =>
            /\ AppendedOneOfType("aria-button-click")
            /\ LET after == EventsOfType(testResults', "aria-button-click")
               IN  after[Len(after)].role = "button" /\ after[Len(after)].tagName = "DIV"
            /\ ariaText' = AriaClickedText
       /\ \A key \in Keys :
            (lastOp'.op = "ariaButtonKeydown" /\ lastOp'.arg[1] = key) =>
                IF key \in {"Enter", " "}
                THEN /\ AppendedOneOfType("aria-button-click")
                     /\ LET after == EventsOfType(testResults', "aria-button-click")
                        IN  /\ after[Len(after)].role = "button"
                            /\ after[Len(after)].tagName = "DIV"
                     /\ ariaText' = AriaClickedText
                ELSE /\ testResults' = testResults
                     /\ ariaText' = ariaText]_vars

\* C5 witness: a Space keydown put the second aria-button-click record.
C5_Witness ==
    /\ lastOp.op = "ariaButtonKeydown"
    /\ lastOp.arg[1] = " "
    /\ Len(EventsOfType(testResults, "aria-button-click")) = 2
    /\ ariaText = AriaClickedText

\* C6: the object an export serializes carries the number of records held
\* in the log at that moment as totalEvents, and the log itself as
\* testResults.
C6_ExportedTotalIsLogSize ==
    download # <<>> =>
        /\ download[1].content.totalEvents = Cardinality(LoggedRecords)
        /\ download[1].content.testResults = testResults

\* C6 witness: an export of a log that holds two records of one type.
C6_Witness ==
    /\ download # <<>>
    /\ download[1].content.totalEvents = 2
    /\ Len(download[1].content.testResults) = 1

\* C7: a record call appends its payload at the end of the sequence of its
\* type, creates the key after the existing keys when it is new, and leaves
\* the other sequences and the order of the keys unchanged; every change of
\* the log other than a Reset is one such append.
C7_RecordAppendsInOrder ==
    [][/\ lastOp'.op \in LoggingOps => AppendedOneOfType(RecordedType(lastOp'.op))
       /\ (testResults' # testResults /\ lastOp'.op # "resetTests") =>
             \E i \in 1..Len(testResults') : AppendedOneOfType(testResults'[i].key)]_vars

\* C7 witness: two types were recorded, aria-button-click first, and a
\* record of the older type arrived after the newer type was created.
C7_Witness ==
    /\ Len(testResults) = 2
    /\ testResults[1].key = "aria-button-click"
    /\ testResults[2].key = "dynamic-id-change"
    /\ lastOp.op = "dynamicButtonClick"

\* C8: without the metrics container the renderer writes nothing, and every
\* record call still appends its payload to the log.
C8_MissingMetricsTolerated ==
    /\ []("test-metrics" \notin doc => metricsHTML = <<>>)
    /\ [][("test-metrics" \notin doc /\ lastOp'.op \in LoggingOps) =>
            /\ AppendedOneOfType(RecordedType(lastOp'.op))
            /\ Cardinality(LoggedRecords') = Cardinality(LoggedRecords) + 1
            /\ metricsHTML' = metricsHTML]_vars

\* C8 witness: two records are held in a document without the container.
C8_Witness ==
    /\ "test-metrics" \notin doc
    /\ Cardinality(LoggedRecords) = 2
    /\ lastOp.op \in LoggingOps
    /\ metricsHTML = <<>>

\* C9: without the stress-test container a stress-test run changes neither
\* the log nor the counter nor the document, so no button and no
\* stress-test-performed record ever exists.
C9_MissingContainerDisables ==
    /\ []("stress-test-container" \notin doc =>
            /\ stressContainer = <<>>
            /\ EventsOfType(testResults, "stress-test-performed") = <<>>)
    /\ [][("stress-test-container" \notin doc /\ lastOp'.op = "performStressTest") =>
            UNCHANGED <<testResults, dynamicIdCounter, startTime, dynamicButton, ariaText,
                        ripples, position, itemBackground, stressContainer, metricsHTML,
                        timers>>]_vars

\* C9 witness: a stress-test run on a non-empty log without the container.
C9_Witness ==
    /\ "stress-test-container" \notin doc
    /\ lastOp.op = "performStressTest"
    /\ Cardinality(LoggedRecords) = 2

\* C10 as stated: during the 2000ms after every click on the ARIA button,
\* that is while the revert that click scheduled is not yet due, the text is
\* the confirmation string.
C10_ConfirmationFor2000msAfterEveryClick ==
    \A i \in PendingReverts :
        (timers[i].due - 2000 <= now /\ now < timers[i].due) => ariaText = AriaClickedText

\* C10 amended: a click schedules its revert 2000ms ahead and shows the
\* confirmation string; while the revert of a click that found no earlier
\* revert pending is not yet due, the text is the confirmation string; the
\* text changes back only when a due revert runs, which sets the original
\* label, and it is the original label whenever no revert is pending.
C10_ConfirmationUntilEarliestRevert ==
    /\ [](\A i \in PendingReverts :
            (timers[i].solo /\ now < timers[i].due) => ariaText = AriaClickedText)
    /\ [](PendingReverts = {} => ariaText = AriaOriginalText)
    /\ [][(\/ lastOp'.op = "ariaButtonClick"
           \/ (lastOp'.op = "ariaButtonKeydown" /\ lastOp'.arg[1] \in {"Enter", " "})) =>
            /\ ariaText' = AriaClickedText
            /\ Len(timers') = Len(timers) + 1
            /\ timers'[Len(timers')].callback = "revertAriaText"
            /\ timers'[Len(timers')].due = now + 2000]_vars
    /\ [][(ariaText = AriaClickedText /\ ariaText' # AriaClickedText) =>
            /\ ariaText' = AriaOriginalText
            /\ now' = now
            /\ \E i \in PendingReverts :
                  /\ timers[i].due <= now
                  /\ timers' = SubSeq(timers, 1, i - 1) \o SubSeq(timers, i + 1, Len(timers))]_vars

\* C10 witness: a second click arrived 1000ms after a first one that had
\* found no revert pending; both reverts are pending.
C10_Witness ==
    /\ Cardinality(PendingReverts) = 2
    /\ \E i, j \in PendingReverts :
          /\ timers[i].solo /\ ~timers[j].solo
          /\ timers[j].due = timers[i].due + 1000
          /\ now = timers[j].due - 2000
    /\ ariaText = AriaClickedText

\* what the callback t does to the document when it runs
RevertApplied(t) ==
    CASE t.callback = "clearDynamicHighlight" -> dynamicButton'.backgroundColor = ""
      [] t.callback = "revertAriaText"        -> ariaText' = AriaOriginalText
      [] t.callback = "clearListHighlight"    -> itemBackground'[t.target] = ""
      [] t.callback = "removeRipple"          ->
             ripples'[t.target] = IF ripples[t.target] > 0 THEN ripples[t.target] - 1 ELSE 0

\* a step changes the pending callbacks only by scheduling new ones behind the
\* pending ones, or by running one that is due, which removes that one alone
TimersOnlyAddedOrRun ==
    \/ /\ Len(timers') >= Len(timers)
       /\ SubSeq(timers', 1, Len(timers)) = timers
    \/ \E i \in 1..Len(timers) :
          /\ timers[i].due <= now
          /\ timers' = removeAt(timers, i)
          /\ lastOp'.op = "timerFires"
          /\ RevertApplied(timers[i])

\* nothing is left over of any interaction: original ARIA label, no highlight
\* on the dynamic button or a list item, no ripple element
NoLeftovers ==
    /\ ariaText = AriaOriginalText
    /\ dynamicButton.backgroundColor = ""
    /\ \A i \in DOMAIN itemBackground : itemBackground[i] = ""
    /\ \A i \in DOMAIN ripples : ripples[i] = 0

\* C11: every scheduled revert stays pending until it is due and then runs,
\* once, with its effect; no click and no Reset removes a pending revert; every
\* pending revert does run; and whenever no revert is pending, the ARIA button
\* shows its original label, the dynamic button and every list item have no
\* highlight colour and no ripple element is left in the document.
C11_RevertsRunOnceNeverCancelled ==
    /\ [][TimersOnlyAddedOrRun]_vars
    /\ [][lastOp'.op = "resetTests" => timers' = timers]_vars
    /\ [](timers = <<>> => NoLeftovers)
    /\ (timers # <<>>) ~> (timers = <<>>)

\* all reverts have run after the interactions stopped; among the interactions
\* were a click on the first nested span and a Reset
C11_Witness ==
    /\ timers = <<>>
    /\ lastOp.op = "timerFires"
    /\ now > MaxTicks * TickMs
    /\ clicksSinceLoad = -1
    /\ position[1] = "relative"

\* the ancestor elements of e strictly below document.body: elements are
\* numbered by depth, so these are the elements of the chain above e
AncestorsBelowBody(e) == {a \in 1..Len(tree) : a < e}

\* C12: a click on a nested probe element appends exactly one
\* nested-element-click record, the one of the clicked element and not one of
\* an enclosing probe element, and the nestingLevel of that record is the
\* number of ancestor elements of the clicked element strictly below
\* document.body.
C12_NestedClickRecordsInnermost ==
    [][\A index \in 1..Len(nestedElements) :
          (lastOp'.op = "nestedElementClick" /\ lastOp'.arg = <<index>>) =>
              /\ AppendedOneOfType("nested-element-click")
              /\ LET after == EventsOfType(testResults', "nested-element-click")
                     record == after[Len(after)]
                 IN /\ record.elementIndex = index - 1
                    /\ record.cssPath = generateCssPath(nestedElements[index])
                    /\ record.nestingLevel =
                          Cardinality(AncestorsBelowBody(nestedElements[index]))]_vars

\* the second probe span, which lies inside the first, was clicked and the
\* log holds one record, of the second span at nesting level 2
C12_Witness ==
    /\ lastOp.op = "nestedElementClick"
    /\ lastOp.arg = <<2>>
    /\ tree = <<Wrapper, OuterSpan, InnerSpan>>
    /\ LET events == EventsOfType(testResults, "nested-element-click")
       IN /\ Len(events) = 1
          /\ events[1].elementIndex = 1
          /\ events[1].nestingLevel = 2

\* the segments of a joined path: the tokens at the odd places
SegmentsOf(path) == [k \in 1..((Len(path) + 1) \div 2) |-> path[2 * k - 1]]

\* path has level + 1 segments, separated by " > ": the k-th is the selector
\* of the element at depth k, the last the one of e; none is document.body
PathFromOutermostTo(e, path, level) ==
    LET segments == SegmentsOf(path)
    IN  /\ Len(segments) = level + 1
        /\ Len(path) = 2 * Len(segments) - 1
        /\ \A k \in 1..(Len(segments) - 1) : path[2 * k] = " > "
        /\ \A k \in 1..Len(segments) :
              /\ segments[k] = selectorOf(k)
              /\ segments[k] # selectorOf(Body)
        /\ segments[Len(segments)] = selectorOf(e)

\* C17: for every element e below document.body, generateCssPath(e) has
\* calculateNestingLevel(e) + 1 segments, ordered from the outermost ancestor
\* below the body down to e itself, and the body is not among them; the same
\* holds of the cssPath and nestingLevel of every nested-element-click record
\* for the element it was logged for.
C17_CssPathHasLevelPlusOneSegments ==
    /\ \A e \in 1..Len(tree) :
          PathFromOutermostTo(e, generateCssPath(e), calculateNestingLevel(e))
    /\ LET events == EventsOfType(testResults, "nested-element-click")
       IN \A n \in 1..Len(events) :
             PathFromOutermostTo(nestedElements[events[n].elementIndex + 1],
                                 events[n].cssPath, events[n].nestingLevel)

\* a record of the span at depth 3 holds a path of three segments
C17_Witness ==
    /\ tree = <<Wrapper, OuterSpan, InnerSpan>>
    /\ lastOp.op = "nestedElementClick"
    /\ LET events == EventsOfType(testResults, "nested-element-click")
       IN /\ events # <<>>
          /\ events[Len(events)].nestingLevel = 2
          /\ events[Len(events)].cssPath =
                <<"div.deeply-nested", " > ", "span#outer-span", " > ",
                  "span.inner.highlight">>

\* the button of subsection b of section s
GeneratedButton(s, b) == stressContainer[s].children[b].children[1]

\* C13: after a stress-test run the container holds 15 buttons whose
\* (sectionIndex, subsectionIndex) pairs are pairwise distinct and are exactly
\* the pairs of {0..4} x {0..2}, the button of subsection j of section i
\* holding (i, j); a click on that button appends exactly one
\* stress-test-click record, with sectionIndex i and subsectionIndex j.
C13_StressButtonsKeepOwnIndices ==
    /\ [](stressContainer # <<>> =>
            /\ Cardinality(LeafButtons) = 15
            /\ {<<GeneratedButton(l[1], l[2]).sectionIndex,
                   GeneratedButton(l[1], l[2]).subsectionIndex>> : l \in LeafButtons}
                 = (0..4) \X (0..2)
            /\ \A l \in LeafButtons :
                  /\ GeneratedButton(l[1], l[2]).sectionIndex = l[1] - 1
                  /\ GeneratedButton(l[1], l[2]).subsectionIndex = l[2] - 1)
    /\ [][\A s \in 1..5, b \in 1..3 :
            (lastOp'.op = "stressButtonClick" /\ lastOp'.arg = <<s, b>>) =>
                /\ AppendedOneOfType("stress-test-click")
                /\ LET after == EventsOfType(testResults', "stress-test-click")
                   IN /\ after[Len(after)].sectionIndex = s - 1
                      /\ after[Len(after)].subsectionIndex = b - 1]_vars

\* the button built for (1, 2) was clicked after the button built for (4, 2)
C13_Witness ==
    /\ lastOp.op = "stressButtonClick"
    /\ lastOp.arg = <<2, 3>>
    /\ LET events == EventsOfType(testResults, "stress-test-click")
       IN /\ Len(events) = 2
          /\ events[1].sectionIndex = 4 /\ events[1].subsectionIndex = 2
          /\ events[2].sectionIndex = 1 /\ events[2].subsectionIndex = 2

\* C14: in every reachable state the log holds DynamicIdCounter - 1
\* dynamic-id-change records, the k-th has newId dynamic-btn-k and as oldId
\* the newId of the record before it (the original id for the first), and the
\* button's id is the newId of the last record, or the original id when there
\* is no record.
C14_IdChangeRecordsChain ==
    LET changes == EventsOfType(testResults, "dynamic-id-change")
    IN  /\ Len(changes) = dynamicIdCounter - 1
        /\ \A k \in 1..Len(changes) :
              /\ changes[k].newId = "dynamic-btn-" \o ToString(k)
              /\ changes[k].oldId = IF k = 1 THEN "dynamic-id-btn"
                                    ELSE changes[k - 1].newId
        /\ dynamicButton.id = IF changes = <<>> THEN "dynamic-id-btn"
                              ELSE changes[Len(changes)].newId

\* two dynamic-id clicks in a row after a Reset, both highlight timers pending
C14_Witness ==
    /\ clicksSinceLoad = -1
    /\ lastOp.op = "dynamicButtonClick"
    /\ Len(EventsOfType(testResults, "dynamic-id-change")) = 2
    /\ dynamicButton.id = "dynamic-btn-2"
    /\ Len(timers) = 2

\* the event types that have at least one record in the log
RecordedTypes ==
    {testResults[i].key : i \in {j \in 1..Len(testResults) : testResults[j].events # <<>>}}

\* C15: in every reachable state every key of the log holds at least one
\* record and no key occurs twice, so the event-type count the metrics panel
\* shows is the number of event types with at least one record since the last
\* Reset.
C15_NoEmptyEventType ==
    /\ \A i \in 1..Len(testResults) : testResults[i].events # <<>>
    /\ \A i, j \in 1..Len(testResults) :
          testResults[i].key = testResults[j].key => i = j
    /\ "test-metrics" \in doc => metricsHTML[2] = Cardinality(RecordedTypes)

\* after a Reset two events of different types were recorded and the panel
\* shows two event types
C15_Witness ==
    /\ "test-metrics" \in doc
    /\ clicksSinceLoad = -1
    /\ Len(testResults) = 2
    /\ metricsHTML[2] = 2
    /\ lastOp.op \in LoggingOps

\* C16: an export changes neither the log, the counter, the session clock,
\* the dynamic button nor the displayed metrics (nor anything else of the
\* document or the pending callbacks), and the handler that runs right after
\* an export appends its record to the log as it was before the export.
C16_ExportLeavesSessionUnchanged ==
    /\ [][lastOp'.op = "exportTestResults" =>
            UNCHANGED <<testResults, dynamicIdCounter, startTime, dynamicButton,
                        metricsHTML, now, ariaText, ripples, position, itemBackground,
                        stressContainer, timers>>]_vars
    /\ [][(lastOp.op = "exportTestResults" /\ lastOp'.op \in LoggingOps) =>
            /\ download[1].content.testResults = testResults
            /\ AppendedOneOfType(RecordedType(lastOp'.op))]_vars

\* an export ran after a dynamic-id click, with the click's highlight timer
\* pending: the file holds the log, and the log, the counter, the id and the
\* panel are those the click left
C16_Witness ==
    /\ lastOp.op = "exportTestResults"
    /\ "test-metrics" \in doc
    /\ download[1].content.testResults = testResults
    /\ Len(EventsOfType(testResults, "dynamic-id-change")) = 1
    /\ dynamicIdCounter = 2
    /\ dynamicButton.id = "dynamic-btn-1"
    /\ metricsHTML[1] = 1
    /\ timers # <<>>

=============================================================================
